---- MODULE Spec2Model ----
(***************************************************************************)
(* Document-size pipeline of DesignReviewAgent: token estimation,          *)
(* paragraph chunking, per-chunk summarization and reassembly, in the two  *)
(* copies of the module                                                    *)
(*   "package"  : src/design_review_automation/design_reviewer.py          *)
(*   "toplevel" : src/design_reviewer.py                                   *)
(* A text is a sequence of characters; "a" stands for any character other  *)
(* than a newline and NL for the newline.                                  *)
(***************************************************************************)
EXTENDS Integers, Sequences, FiniteSets

VARIABLES
    copy,               \* which copy of the module the agent is an instance of
    agent,              \* outcome of __init__: "ready" or "init_failed"
    max_chunk_size,     \* self.max_chunk_size
    pc,                 \* position of the current call
    design_doc,         \* argument of the current call
    chunks,             \* chunks (result of _chunk_document)
    processed_chunks,   \* processed_chunks of _process_large_document
    calls,              \* requests sent to the summarization service in this
                        \* call, each with its outcome and the text answered
    result,             \* text returned by _process_large_document
    error,              \* exception class that left the call, "none" otherwise
    total_tokens,       \* total_tokens of _process_large_document
    outstanding,        \* requests sent to the service and not yet answered
    log,                \* lines the call wrote (print / logger), in order
    review,             \* what review_design returned, NoReview before that
    validation,         \* _validate_review_result inside review_design: the
                        \* parsed review, the criteria, and what came of them
    requests,           \* create(...) calls made on the client by _summarize_chunk
                        \* in this call, with their arguments, in order
    parser,             \* DocumentParser.parse_document: the call in progress
    analyzer            \* ImageAnalyzer.analyze_document_images: the call in progress

agentVars == <<copy, agent, max_chunk_size>>

vars == <<copy, agent, max_chunk_size, pc, design_doc, chunks,
          processed_chunks, calls, result, error,
          total_tokens, outstanding, log, review, requests, validation,
          parser, analyzer>>

\* everything of the DesignReviewAgent
reviewerVars == <<copy, agent, max_chunk_size, pc, design_doc, chunks,
                  processed_chunks, calls, result, error,
                  total_tokens, outstanding, log, review, requests,
                  validation>>

----------------------------------------------------------------------------
(* Bounds of the model *)

MaxLen == 12            \* longest document, in characters
MaxBudget == 2          \* largest max_chunk_size given to __init__
MaxImages == 2          \* most images extracted from one document

(* Program constants *)

CharsPerToken == 4
DefaultMinScore == 7        \* default of min_score_threshold
TemperatureTenths == 3      \* temperature=0.3, in tenths
MaxTokens == 2000           \* max_tokens=2000

NL == "\n"
Chars == {"a", NL}
Sep == <<NL, NL>>       \* the paragraph separator '\n\n'

Copies == {"package", "toplevel"}
Budgets == 0 .. MaxBudget

\* every text of at most n characters
TextsUpTo(n) == UNION {[1..k -> Chars] : k \in 0..n}
Documents == TextsUpTo(MaxLen)

\* an argument that is not a str (review_design also takes a Path)
NotText == <<"<Path>">>

NoReview == [status |-> "none", message |-> "none"]

\* what the summarization service can answer: a text, returned as it is
Summaries == {<<"s">>, <<"t", NL, NL, "u", NL>>}
\* how the external call can fail
Failures == {"OpenAIError", "Exception"}

----------------------------------------------------------------------------
(* str.split('\n\n') and '\n\n'.join(...) *)

RECURSIVE SplitAcc(_, _)
SplitAcc(rest, cur) ==
    IF rest = <<>> THEN <<cur>>
    ELSE IF Len(rest) >= 2 /\ rest[1] = NL /\ rest[2] = NL
         THEN <<cur>> \o SplitAcc(SubSeq(rest, 3, Len(rest)), <<>>)
         ELSE SplitAcc(Tail(rest), Append(cur, Head(rest)))

Split(text) == SplitAcc(text, <<>>)

RECURSIVE Join(_)
Join(parts) ==
    IF parts = <<>> THEN <<>>
    ELSE IF Len(parts) = 1 THEN parts[1]
         ELSE parts[1] \o Sep \o Join(Tail(parts))

----------------------------------------------------------------------------
(* Token Estimator *)

\* the quotient is rounded up
EstimateRoundsUp(text) == (Len(text) + CharsPerToken - 1) \div CharsPerToken

_estimate_tokens(text) == Len(text) \div CharsPerToken

----------------------------------------------------------------------------
(* Chunker *)

\* the accumulator before the first paragraph
ChunkInit == [chunks |-> <<>>, current_chunk |-> <<>>, current_size |-> 0]

\* the paragraph that closes a chunk is not carried into the next one
ChunkStepDropsPara(st, para, budget) ==
    LET para_tokens == _estimate_tokens(para) IN
    IF st.current_size + para_tokens > budget
    THEN [chunks |-> IF st.current_chunk # <<>>
                     THEN Append(st.chunks, Join(st.current_chunk))
                     ELSE st.chunks,
          current_chunk |-> IF st.current_chunk # <<>> THEN <<>> ELSE <<para>>,
          current_size |-> IF st.current_chunk # <<>> THEN 0 ELSE para_tokens]
    ELSE [chunks |-> st.chunks,
          current_chunk |-> Append(st.current_chunk, para),
          current_size |-> st.current_size + para_tokens]

\* a new chunk starts with a size of 0 instead of its first paragraph's size
ChunkStepSizeReset(st, para, budget) ==
    LET para_tokens == _estimate_tokens(para) IN
    IF st.current_size + para_tokens > budget
    THEN [chunks |-> IF st.current_chunk # <<>>
                     THEN Append(st.chunks, Join(st.current_chunk))
                     ELSE st.chunks,
          current_chunk |-> <<para>>,
          current_size |-> 0]
    ELSE [chunks |-> st.chunks,
          current_chunk |-> Append(st.current_chunk, para),
          current_size |-> st.current_size + para_tokens]

\* the size of a new chunk goes on from the size of the chunk just closed
ChunkStepKeepsSize(st, para, budget) ==
    LET para_tokens == _estimate_tokens(para) IN
    IF st.current_size + para_tokens > budget
    THEN [chunks |-> IF st.current_chunk # <<>>
                     THEN Append(st.chunks, Join(st.current_chunk))
                     ELSE st.chunks,
          current_chunk |-> <<para>>,
          current_size |-> st.current_size + para_tokens]
    ELSE [chunks |-> st.chunks,
          current_chunk |-> Append(st.current_chunk, para),
          current_size |-> st.current_size + para_tokens]

\* a paragraph that brings the size exactly to the budget closes the chunk
ChunkStepSplitsAtBudget(st, para, budget) ==
    LET para_tokens == _estimate_tokens(para) IN
    IF st.current_size + para_tokens >= budget
    THEN [chunks |-> IF st.current_chunk # <<>>
                     THEN Append(st.chunks, Join(st.current_chunk))
                     ELSE st.chunks,
          current_chunk |-> <<para>>,
          current_size |-> para_tokens]
    ELSE [chunks |-> st.chunks,
          current_chunk |-> Append(st.current_chunk, para),
          current_size |-> st.current_size + para_tokens]

\* one iteration of the for loop over the paragraphs
ChunkStep(st, para, budget) ==
    LET para_tokens == _estimate_tokens(para) IN
    IF st.current_size + para_tokens > budget
    THEN [chunks |-> IF st.current_chunk # <<>>
                     THEN Append(st.chunks, Join(st.current_chunk))
                     ELSE st.chunks,
          current_chunk |-> <<para>>,
          current_size |-> para_tokens]
    ELSE [chunks |-> st.chunks,
          current_chunk |-> Append(st.current_chunk, para),
          current_size |-> st.current_size + para_tokens]

RECURSIVE ChunkLoop(_, _, _)
ChunkLoop(st, paragraphs, budget) ==
    IF paragraphs = <<>> THEN st
    ELSE ChunkLoop(ChunkStep(st, Head(paragraphs), budget), Tail(paragraphs), budget)

\* the accumulator left after the last paragraph is forgotten
ChunkCloseDropsLast(st) == st.chunks

\* the trailing "if current_chunk: chunks.append(...)"
ChunkClose(st) ==
    IF st.current_chunk # <<>>
    THEN Append(st.chunks, Join(st.current_chunk))
    ELSE st.chunks

\* a chunk that is over the budget on its own is left out
ChunkDocumentSkipsOversized(text, budget) ==
    LET WithinBudget(chunk) == _estimate_tokens(chunk) <= budget
    IN  SelectSeq(ChunkClose(ChunkLoop(ChunkInit, Split(text), budget)), WithinBudget)

_chunk_document(text, budget) ==
    ChunkClose(ChunkLoop(ChunkInit, Split(text), budget))

----------------------------------------------------------------------------
(* Document Size Controller and Chunk Reducer *)

FitsBudgetStrict(tokens, budget) == tokens < budget

\* the test "total_tokens <= self.max_chunk_size"
FitsBudget(tokens, budget) == tokens <= budget

LoopChunkReversed(chs, k) == chs[Len(chs) - k + 1]

\* the chunk the k-th iteration of "for i, chunk in enumerate(chunks, 1)" reduces
LoopChunk(chs, k) == chs[k]

\* what _summarize_chunk returns when the service answered
SummaryOf(response) == response

FallbackEmpty(chunk) == <<>>

\* what the toplevel _summarize_chunk returns from its except branch
FallbackOf(chunk) == chunk

RECURSIVE Reverse(_)
Reverse(parts) ==
    IF parts = <<>> THEN <<>> ELSE Append(Reverse(Tail(parts)), Head(parts))

ReassembleReversed(parts) == Join(Reverse(parts))

\* the final "\n\n".join(processed_chunks)
Reassemble(parts) == Join(parts)

\* exception leaving the package _summarize_chunk for a failure of the call
SummarizeRaises(failure) ==
    IF failure = "OpenAIError" THEN "ReviewError" ELSE "DocumentProcessingError"

\* the line the package _summarize_chunk logs for a failure of the call
SummarizeLogs(failure) ==
    IF failure = "OpenAIError" THEN "OpenAI API error during summarization"
    ELSE "Error summarizing chunk"

\* what was caught is raised again as it is
ProcessReraises(caught) == caught

\* the package _process_large_document re-raises whatever it caught
ProcessRaises(caught) == "DocumentProcessingError"

Callable == agent = "ready" /\ pc = "idle"

\* a direct call of _chunk_document
ChunkDocument ==
    /\ UNCHANGED <<validation, parser, analyzer, requests>>
    /\ Callable
    /\ \E doc \in Documents :
        /\ design_doc' = doc
        /\ chunks' = _chunk_document(doc, max_chunk_size)
    /\ pc' = "chunked"
    /\ processed_chunks' = <<>>
    /\ calls' = <<>>
    /\ result' = <<>>
    /\ error' = "none"
    /\ UNCHANGED <<copy, agent, max_chunk_size, total_tokens, outstanding, log, review>>

\* a budget of 0 or less is replaced by 1 when the document is measured
ProcessLargeDocumentClamps ==
    /\ UNCHANGED <<validation, parser, analyzer, requests>>
    /\ agent = "ready" /\ pc = "idle"
    /\ max_chunk_size' = IF max_chunk_size <= 0 THEN 1 ELSE max_chunk_size
    /\ \E doc \in Documents :
        /\ design_doc' = doc
        /\ total_tokens' = _estimate_tokens(doc)
        /\ IF _estimate_tokens(doc) <= max_chunk_size'
           THEN /\ pc' = "returned"
                /\ result' = doc
                /\ chunks' = <<>>
                /\ log' = <<>>
           ELSE /\ pc' = "reducing"
                /\ result' = <<>>
                /\ chunks' = _chunk_document(doc, max_chunk_size')
                /\ log' = <<"Document is large">>
    /\ processed_chunks' = <<>>
    /\ calls' = <<>>
    /\ error' = "none"
    /\ UNCHANGED <<copy, agent, outstanding, review>>

\* _process_large_document up to the start of the loop
ProcessLargeDocument ==
    /\ UNCHANGED <<validation, parser, analyzer, requests>>
    /\ Callable
    /\ \E doc \in Documents :
        /\ design_doc' = doc
        /\ total_tokens' = _estimate_tokens(doc)
        /\ IF FitsBudget(_estimate_tokens(doc), max_chunk_size)
           THEN /\ pc' = "returned"
                /\ result' = doc
                /\ chunks' = <<>>
                /\ log' = <<>>
           ELSE /\ pc' = "reducing"
                /\ result' = <<>>
                /\ chunks' = _chunk_document(doc, max_chunk_size)
                /\ log' = <<"Document is large">>
    /\ processed_chunks' = <<>>
    /\ calls' = <<>>
    /\ error' = "none"
    /\ UNCHANGED <<copy, agent, max_chunk_size, outstanding, review>>

\* _process_large_document given something that is not a str: len() raises
\* in _estimate_tokens; the package copy wraps it twice, the toplevel copy
\* lets the TypeError out
ProcessNotText ==
    /\ UNCHANGED <<validation, parser, analyzer, requests>>
    /\ Callable
    /\ design_doc' = NotText
    /\ pc' = "estimate_failed"
    /\ IF copy = "package"
       THEN /\ error' = ProcessRaises("DocumentProcessingError")
            /\ log' = <<"Error estimating tokens", "Error processing large document">>
       ELSE /\ error' = "TypeError"
            /\ log' = <<>>
    /\ UNCHANGED <<copy, agent, max_chunk_size, chunks, processed_chunks, calls,
                   result, total_tokens, outstanding, review>>

InLoop == pc = "reducing" /\ Len(processed_chunks) < Len(chunks)

\* the instruction that opens the user message of a summarization request
PreservationInstruction(c) ==
    IF c = "package"
    THEN <<"Please summarize the following text while preserving all key technical information, requirements, and design decisions. Maintain the original structure and technical accuracy:">>
    ELSE <<"Please summarize the following text while preserving all key technical information, requirements, and design decisions:">>

\* the arguments of self.client.chat.completions.create in _summarize_chunk;
\* user is the f-string: the instruction, a blank line, the chunk
CreateArguments(c, chunk) ==
    [model |-> "gpt-4-turbo-preview",
     user |-> PreservationInstruction(c) \o <<NL, NL>> \o chunk,
     temperature |-> TemperatureTenths,
     max_tokens |-> MaxTokens]

\* every chunk is sent at once, without waiting for the answers
SummarizeRequestAll ==
    /\ UNCHANGED <<validation, parser, analyzer>>
    /\ pc = "reducing"
    /\ Len(processed_chunks) + Len(outstanding) < Len(chunks)
    /\ outstanding' = Append(outstanding,
                             chunks[Len(processed_chunks) + Len(outstanding) + 1])
    /\ log' = Append(log, "Processing chunk")
    /\ requests' = Append(requests,
                        CreateArguments(copy, chunks[Len(processed_chunks) + Len(outstanding) + 1]))
    /\ UNCHANGED <<copy, agent, max_chunk_size, pc, design_doc, chunks,
                   processed_chunks, calls, result, error, total_tokens, review>>

\* one iteration, first half: _summarize_chunk sends its request and blocks
SummarizeRequest ==
    /\ UNCHANGED <<validation, parser, analyzer>>
    /\ InLoop
    /\ outstanding = <<>>
    /\ outstanding' = <<LoopChunk(chunks, Len(processed_chunks) + 1)>>
    /\ log' = Append(log, "Processing chunk")
    /\ requests' = Append(requests,
                        CreateArguments(copy, LoopChunk(chunks, Len(processed_chunks) + 1)))
    /\ UNCHANGED <<copy, agent, max_chunk_size, pc, design_doc, chunks,
                   processed_chunks, calls, result, error, total_tokens, review>>

\* the request of the current iteration is waiting for its answer
Waiting == InLoop /\ outstanding # <<>>

\* one iteration, second half: the service answers
SummarizeOk ==
    /\ UNCHANGED <<validation, parser, analyzer, requests>>
    /\ Waiting
    /\ \E response \in Summaries :
        LET chunk == Head(outstanding) IN
        /\ calls' = Append(calls, [chunk |-> chunk, outcome |-> "ok",
                                   response |-> response])
        /\ processed_chunks' = Append(processed_chunks, SummaryOf(response))
    /\ outstanding' = Tail(outstanding)
    /\ UNCHANGED <<copy, agent, max_chunk_size, pc, design_doc, chunks, result,
                   error, total_tokens, log, review>>

\* the failure is swallowed and the loop goes on with the unreduced chunk
SummarizeFailSwallowed ==
    /\ UNCHANGED <<validation, parser, analyzer, requests>>
    /\ Waiting
    /\ copy = "package"
    /\ \E failure \in Failures :
        LET chunk == Head(outstanding) IN
        /\ calls' = Append(calls, [chunk |-> chunk, outcome |-> "failed",
                                   response |-> <<>>])
        /\ processed_chunks' = Append(processed_chunks, chunk)
    /\ outstanding' = Tail(outstanding)
    /\ UNCHANGED <<copy, agent, max_chunk_size, pc, design_doc, chunks, result,
                   error, total_tokens, log, review>>

\* a failed request is sent once more before the failure is raised
SummarizeFailRetries ==
    /\ UNCHANGED <<validation, parser, analyzer>>
    /\ Waiting
    /\ copy = "package"
    /\ IF Len(requests) = Len(calls) + 1
       THEN /\ requests' = Append(requests, requests[Len(requests)])
            /\ UNCHANGED <<calls, error, outstanding, log, pc>>
       ELSE /\ requests' = requests
            /\ \E failure \in Failures :
                LET chunk == Head(outstanding) IN
                /\ calls' = Append(calls, [chunk |-> chunk, outcome |-> "failed",
                                           response |-> <<>>])
                /\ error' = ProcessRaises(SummarizeRaises(failure))
                /\ log' = log \o <<SummarizeLogs(failure), "Error processing large document">>
            /\ outstanding' = Tail(outstanding)
            /\ pc' = "raised"
    /\ UNCHANGED <<copy, agent, max_chunk_size, design_doc, chunks,
                   processed_chunks, result, total_tokens, review>>

\* one iteration of the package copy: the call fails
SummarizeFailPropagate ==
    /\ UNCHANGED <<validation, parser, analyzer, requests>>
    /\ Waiting
    /\ copy = "package"
    /\ \E failure \in Failures :
        LET chunk == Head(outstanding) IN
        /\ calls' = Append(calls, [chunk |-> chunk, outcome |-> "failed",
                                   response |-> <<>>])
        /\ error' = ProcessRaises(SummarizeRaises(failure))
        /\ log' = log \o <<SummarizeLogs(failure), "Error processing large document">>
    /\ outstanding' = Tail(outstanding)
    /\ pc' = "raised"
    /\ UNCHANGED <<copy, agent, max_chunk_size, design_doc, chunks,
                   processed_chunks, result, total_tokens, review>>

\* the unreduced chunk is substituted without a word
SummarizeFailSilent ==
    /\ UNCHANGED <<validation, parser, analyzer, requests>>
    /\ pc = "reducing" /\ Len(processed_chunks) < Len(chunks) /\ outstanding # <<>>
    /\ copy = "toplevel"
    /\ \E failure \in Failures :
        LET chunk == Head(outstanding) IN
        /\ calls' = Append(calls, [chunk |-> chunk, outcome |-> "failed",
                                   response |-> <<>>])
        /\ processed_chunks' = Append(processed_chunks, chunk)
    /\ outstanding' = Tail(outstanding)
    /\ UNCHANGED <<copy, agent, max_chunk_size, pc, design_doc, chunks, result,
                   error, total_tokens, log, review>>

\* one iteration of the toplevel copy: the call fails
SummarizeFailFallback ==
    /\ UNCHANGED <<validation, parser, analyzer, requests>>
    /\ Waiting
    /\ copy = "toplevel"
    /\ \E failure \in Failures :
        LET chunk == Head(outstanding) IN
        /\ calls' = Append(calls, [chunk |-> chunk, outcome |-> "failed",
                                   response |-> <<>>])
        /\ processed_chunks' = Append(processed_chunks, FallbackOf(chunk))
    /\ outstanding' = Tail(outstanding)
    /\ log' = Append(log, "Warning: Could not summarize chunk")
    /\ UNCHANGED <<copy, agent, max_chunk_size, pc, design_doc, chunks, result,
                   error, total_tokens, review>>

\* the joined output is chunked and reduced again instead of being returned
ProcessReturnRechunks ==
    /\ UNCHANGED <<validation, parser, analyzer, requests>>
    /\ pc = "reducing"
    /\ Len(processed_chunks) = Len(chunks)
    /\ chunks' = _chunk_document(Reassemble(processed_chunks), max_chunk_size)
    /\ processed_chunks' = <<>>
    /\ calls' = <<>>
    /\ UNCHANGED <<copy, agent, max_chunk_size, pc, design_doc, result, error,
                   total_tokens, outstanding, log, review>>

\* the loop is over: join and return
ProcessReturn ==
    /\ UNCHANGED <<validation, parser, analyzer, requests>>
    /\ pc = "reducing"
    /\ Len(processed_chunks) = Len(chunks)
    /\ result' = Reassemble(processed_chunks)
    /\ pc' = "returned"
    /\ UNCHANGED <<copy, agent, max_chunk_size, design_doc, chunks,
                   processed_chunks, calls, error, total_tokens, outstanding,
                   log, review>>

----------------------------------------------------------------------------
(* review_design, after its call of _process_large_document *)

\* the exception classes and their base classes (Exception is everyone's)
BaseOf(cls) ==
    CASE cls = "DocumentProcessingError" -> "ReviewError"
      [] cls = "ReviewValidationError" -> "ReviewError"
      [] OTHER -> "Exception"

IsInstance(exc, cls) ==
    \/ exc = cls
    \/ BaseOf(exc) = cls
    \/ cls = "Exception"

\* the except clauses of the package review_design, in order, with the
\* prefix each puts in its message
Handlers ==
    << [cls |-> "OpenAIError",             prefix |-> "OpenAI API error"],
       [cls |-> "ValidationError",         prefix |-> "Validation error"],
       [cls |-> "DocumentProcessingError", prefix |-> "Document processing error"],
       [cls |-> "ReviewValidationError",   prefix |-> "Review validation error"],
       [cls |-> "Exception",               prefix |-> "Unexpected error"] >>

\* the first except clause that takes the exception
FirstHandler(exc) ==
    LET matching == {i \in 1..Len(Handlers) : IsInstance(exc, Handlers[i].cls)}
    IN  Handlers[CHOOSE i \in matching : \A j \in matching : i <= j]

\* a failure of the document processing is dropped and the review goes on
ReviewOnExceptionProceeds(c, exc) ==
    IF exc = "DocumentProcessingError"
    THEN [status |-> "success", message |-> "none"]
    ELSE IF c = "package"
         THEN [status |-> "error", message |-> FirstHandler(exc).prefix]
         ELSE [status |-> "error", message |-> "str(e)"]

\* what review_design returns when exc is raised inside its try block
ReviewOnException(c, exc) ==
    IF c = "package"
    THEN [status |-> "error", message |-> FirstHandler(exc).prefix]
    ELSE [status |-> "error", message |-> "str(e)"]

\* what the rest of the try block can raise: the review request, parse_raw,
\* and in the package copy _validate_review_result
ReviewFailures(c) ==
    {"OpenAIError", "ValidationError", "Exception"}
        \cup (IF c = "package" THEN {"ReviewValidationError"} ELSE {})

\* "chunks_processed" of the review metadata
ChunksProcessed(processed_doc, doc) ==
    IF processed_doc # doc THEN Len(Split(processed_doc)) ELSE 0

\* what review_design returns when nothing is raised; the package copy puts
\* chunks_processed into the review's metadata
ReviewSuccess(c, processed_doc, doc) ==
    IF c = "package"
    THEN [status |-> "success", message |-> "none",
          chunks_processed |-> ChunksProcessed(processed_doc, doc)]
    ELSE [status |-> "success", message |-> "none"]

\* _process_large_document raised inside review_design
ReviewCatches ==
    /\ UNCHANGED <<validation, parser, analyzer>>
    /\ requests' = <<>>
    /\ pc \in {"raised", "estimate_failed"}
    /\ review' = ReviewOnException(copy, error)
    /\ pc' = "reviewed"
    /\ design_doc' = <<>>
    /\ chunks' = <<>>
    /\ processed_chunks' = <<>>
    /\ calls' = <<>>
    /\ total_tokens' = 0
    /\ UNCHANGED <<copy, agent, max_chunk_size, result, error, outstanding, log>>

\* _process_large_document returned inside review_design: the review request
\* is made with the processed document and the answer parsed and validated
ReviewCall ==
    /\ UNCHANGED <<validation, parser, analyzer>>
    /\ requests' = <<>>
    /\ pc = "returned"
    /\ \/ review' = ReviewSuccess(copy, result, design_doc)
       \/ \E exc \in ReviewFailures(copy) : review' = ReviewOnException(copy, exc)
    /\ pc' = "reviewed"
    /\ design_doc' = <<>>
    /\ chunks' = <<>>
    /\ processed_chunks' = <<>>
    /\ calls' = <<>>
    /\ result' = <<>>
    /\ total_tokens' = 0
    /\ UNCHANGED <<copy, agent, max_chunk_size, error, outstanding, log>>

\* the call is over and its locals are gone; the agent can be called again
CallEnds ==
    /\ UNCHANGED <<validation, parser, analyzer>>
    /\ requests' = <<>>
    /\ pc \in {"chunked", "returned", "raised", "estimate_failed", "reviewed"}
    /\ pc' = "idle"
    /\ design_doc' = <<>>
    /\ chunks' = <<>>
    /\ processed_chunks' = <<>>
    /\ calls' = <<>>
    /\ result' = <<>>
    /\ error' = "none"
    /\ total_tokens' = 0
    /\ outstanding' = <<>>
    /\ log' = <<>>
    /\ review' = NoReview
    /\ UNCHANGED <<copy, agent, max_chunk_size>>

----------------------------------------------------------------------------
(* _validate_review_result, and review_design around it *)

Sections == <<"problem_statement", "high_level_design", "proposal",
              "security", "operating_model", "resiliency">>

\* a score under the default threshold and one at it
Scores == {DefaultMinScore - 1, DefaultMinScore}

\* a list of recommendations or of findings: empty, or not
Lists == {<<>>, <<"item">>}

\* review_result.dict(), as far as the validation reads it
ReviewResults ==
    [score : [1..Len(Sections) -> Scores],
     security_recommendations : Lists,
     resiliency_recommendations : Lists,
     critical_findings : Lists]

\* the criteria, as far as the validation reads them
Criteria ==
    [min_score_threshold : {1, DefaultMinScore},
     require_security_review : BOOLEAN,
     require_resiliency_review : BOOLEAN]

\* the warnings of the first loop, section after section
RECURSIVE ScoreWarnings(_, _, _)
ScoreWarnings(review_result, criteria, k) ==
    IF k = 0 THEN <<>>
    ELSE ScoreWarnings(review_result, criteria, k - 1)
            \o (IF review_result.score[k] < criteria.min_score_threshold
                THEN <<"scored below minimum threshold: " \o Sections[k]>>
                ELSE <<>>)

\* a section under the threshold fails the validation
ValidateRejectsLowScore(review_result, criteria) ==
    LET warnings == ScoreWarnings(review_result, criteria, Len(Sections)) IN
    IF warnings # <<>>
         \/ (criteria.require_security_review /\ review_result.security_recommendations = <<>>)
         \/ (criteria.require_resiliency_review /\ review_result.resiliency_recommendations = <<>>)
    THEN [raised |-> "ReviewValidationError",
          log |-> warnings \o <<"Error validating review review_result">>]
    ELSE [raised |-> "none",
          log |-> warnings \o (IF review_result.critical_findings = <<>>
                               THEN <<"No critical findings were identified">>
                               ELSE <<>>)]

\* the exception that leaves _validate_review_result ("none": it returns) and
\* the lines it logs. What the try block raises is caught by its except
\* Exception and raised again as ReviewValidationError.
_validate_review_result(review_result, criteria) ==
    LET warnings == ScoreWarnings(review_result, criteria, Len(Sections)) IN
    IF (criteria.require_security_review /\ review_result.security_recommendations = <<>>)
         \/ (criteria.require_resiliency_review /\ review_result.resiliency_recommendations = <<>>)
    THEN [raised |-> "ReviewValidationError",
          log |-> warnings \o <<"Error validating review review_result">>]
    ELSE [raised |-> "none",
          log |-> warnings \o (IF review_result.critical_findings = <<>>
                               THEN <<"No critical findings were identified">>
                               ELSE <<>>)]

NoResult == [score |-> [k \in 1..Len(Sections) |-> DefaultMinScore],
             security_recommendations |-> <<>>,
             resiliency_recommendations |-> <<>>,
             critical_findings |-> <<>>]

NoCriteria == [min_score_threshold |-> DefaultMinScore,
               require_security_review |-> TRUE,
               require_resiliency_review |-> TRUE]

ValidationIdle == [pc |-> "idle", result |-> NoResult, criteria |-> NoCriteria,
                   raised |-> "none", log |-> <<>>, review |-> NoReview]

otherThanValidation ==
    <<copy, agent, max_chunk_size, pc, design_doc, chunks, processed_chunks,
      calls, result, error, total_tokens, outstanding, log, review, requests,
      parser, analyzer>>

\* review_design of the package copy has parsed the answer of the review
\* request into a DesignReviewResult
ReviewParsed ==
    /\ validation.pc = "idle"
    /\ \E r \in ReviewResults, c \in Criteria :
        validation' = [validation EXCEPT !.pc = "parsed", !.result = r,
                                         !.criteria = c]
    /\ UNCHANGED otherThanValidation

\* self._validate_review_result(review_result.dict(), criteria)
ValidateReviewResult ==
    /\ validation.pc = "parsed"
    /\ LET v == _validate_review_result(validation.result, validation.criteria) IN
       validation' = [validation EXCEPT !.pc = "validated",
                                        !.raised = v.raised, !.log = v.log]
    /\ UNCHANGED otherThanValidation

\* review_design returns: the success result, or the result of the except
\* clause that takes what the validation raised
ReviewValidated ==
    /\ validation.pc = "validated"
    /\ validation' =
          [validation EXCEPT
             !.pc = "done",
             !.review = IF validation.raised = "none"
                        THEN [status |-> "success", message |-> "none"]
                        ELSE ReviewOnException("package", validation.raised)]
    /\ UNCHANGED otherThanValidation

ValidationEnds ==
    /\ validation.pc = "done"
    /\ validation' = ValidationIdle
    /\ UNCHANGED otherThanValidation

----------------------------------------------------------------------------
(* DocumentParser.parse_document *)

\* a MIME type "type/subtype"
Mime(t, sub) == [type |-> t, subtype |-> sub]

DocxMime == Mime("application", "vnd.openxmlformats-officedocument.wordprocessingml.document")
PdfMime == Mime("application", "pdf")
MarkdownMime == Mime("text", "markdown")

\* the types libmagic can find in the bytes of a file
Mimes == {DocxMime, PdfMime, MarkdownMime, Mime("text", "plain"),
          Mime("text", "html"), Mime("application", "zip"), Mime("image", "png")}

Extensions == {".docx", ".pdf", ".md", ".txt", ".xyz"}

\* a path: whether a file is there, the extension of its name, and the type
\* its bytes have for libmagic (which does not look at the name)
Files ==
    [exists : {TRUE}, ext : Extensions, magic : Mimes]
        \cup [exists : {FALSE}, ext : Extensions, magic : {Mime("none", "none")}]

NoFile == [exists |-> FALSE, ext |-> "", magic |-> Mime("none", "none")]

ParserIdle == [pc |-> "idle", file |-> NoFile, mime_type |-> Mime("none", "none"),
               trace |-> <<>>, outcome |-> "none"]

\* self.mime.from_file(str(file_path))
detect_file_type(file) == file.magic

\* the if / elif chain on mime_type: the parser called, or ValueError
Dispatch(mime_type) ==
    IF mime_type = DocxMime THEN "parse_docx"
    ELSE IF mime_type = PdfMime THEN "parse_pdf"
    ELSE IF mime_type = MarkdownMime THEN "parse_markdown"
    ELSE IF mime_type.type = "text" THEN "parse_text"
    ELSE "ValueError"

\* the type is detected before the path is looked at
ExistsCheckSkipped(file) == TRUE

\* os.path.exists(file_path)
ExistsCheck(file) == file.exists

\* parse_document up to the existence check
ParseDocument ==
    /\ parser.pc = "idle"
    /\ \E f \in Files :
        IF ExistsCheck(f)
        THEN parser' = [parser EXCEPT !.pc = "checked", !.file = f]
        ELSE parser' = [parser EXCEPT !.pc = "done", !.file = f,
                                      !.outcome = "FileNotFoundError"]
    /\ UNCHANGED <<reviewerVars, analyzer>>

\* mime_type = self.detect_file_type(file_path); libmagic fails on a path
\* with no file
ParseDetect ==
    /\ parser.pc = "checked"
    /\ IF parser.file.exists
       THEN parser' = [parser EXCEPT !.pc = "detected",
                                     !.mime_type = detect_file_type(parser.file),
                                     !.trace = Append(@, "detect_file_type")]
       ELSE parser' = [parser EXCEPT !.pc = "done",
                                     !.trace = Append(@, "detect_file_type"),
                                     !.outcome = "MagicException"]
    /\ UNCHANGED <<reviewerVars, analyzer>>

\* the if / elif chain: one parser is called, or ValueError raised
ParseDispatch ==
    /\ parser.pc = "detected"
    /\ LET target == Dispatch(parser.mime_type) IN
       IF target = "ValueError"
       THEN parser' = [parser EXCEPT !.pc = "done", !.outcome = "ValueError"]
       ELSE parser' = [parser EXCEPT !.pc = "parsing", !.trace = Append(@, target)]
    /\ UNCHANGED <<reviewerVars, analyzer>>

\* the parser called returns the text, or raises on a file it cannot read
ParseEnds ==
    /\ parser.pc = "parsing"
    /\ \E o \in {"text", "ParserException"} :
        parser' = [parser EXCEPT !.pc = "done", !.outcome = o]
    /\ UNCHANGED <<reviewerVars, analyzer>>

ParseCallEnds ==
    /\ parser.pc = "done"
    /\ parser' = ParserIdle
    /\ UNCHANGED <<reviewerVars, analyzer>>

----------------------------------------------------------------------------
(* ImageAnalyzer.analyze_document_images *)

\* str.lower() on the characters of the paths
LowerChar(c) ==
    CASE c = "P" -> "p" [] c = "D" -> "d" [] c = "F" -> "f"
      [] c = "O" -> "o" [] c = "C" -> "c" [] c = "X" -> "x"
      [] OTHER -> c

Lower(path) == [i \in 1..Len(path) |-> LowerChar(path[i])]

\* str.endswith
EndsWith(path, suffix) ==
    /\ Len(path) >= Len(suffix)
    /\ SubSeq(path, Len(path) - Len(suffix) + 1, Len(path)) = suffix

DotPdf == <<".", "p", "d", "f">>
DotDocx == <<".", "d", "o", "c", "x">>

PathStems == {<<>>, <<"a">>, <<"a", ".", "p", "d", "f">>}
PathEnds == {<<>>, DotPdf, <<".", "P", "D", "F">>, <<".", "P", "d", "f">>,
             DotDocx, <<".", "D", "O", "C", "X">>, <<".", "d", "o", "c">>,
             <<"p", "d", "f">>, <<".", "p", "d", "f", "x">>, <<".", "t", "x", "t">>}
DocumentPaths == {stem \o end : stem \in PathStems, end \in PathEnds}

\* the suffix is tested without its dot
DocTypeNoDot(document_path) ==
    IF EndsWith(Lower(document_path), <<"p", "d", "f">>) THEN "pdf"
    ELSE IF EndsWith(Lower(document_path), <<"d", "o", "c", "x">>) THEN "docx"
    ELSE "unsupported"

\* the if / elif chain on document_path.lower().endswith(...)
DocType(document_path) ==
    IF EndsWith(Lower(document_path), DotPdf) THEN "pdf"
    ELSE IF EndsWith(Lower(document_path), DotDocx) THEN "docx"
    ELSE "unsupported"

\* analyze_image as called in the loop: the method of the module, or a
\* stand-in patched over it
AnalyzeImageImpls == {"real", "patched"}

\* module is what importing image_analyzer gave: its annotations Optional[Dict]
\* name a Dict it never imports
AnalyzerIdle == [module |-> "unloaded", pc |-> "idle", document_path |-> <<>>, image_paths |-> 0,
                 analyzed |-> 0, results |-> <<>>, trace |-> <<>>,
                 analyze_image |-> "real", outcomes |-> <<>>,
                 outcome |-> "none"]

\* import of image_analyzer: the def statements evaluate Optional[Dict] on an
\* interpreter with eager annotations and raise NameError, an interpreter with
\* deferred annotations defines the class
ImportImageAnalyzer ==
    /\ analyzer.module = "unloaded"
    /\ \E m \in {"loaded", "NameError"} :
        analyzer' = [analyzer EXCEPT !.module = m]
    /\ UNCHANGED <<reviewerVars, parser>>

\* analyze_document_images up to the extraction
AnalyzeDocumentImages ==
    /\ analyzer.module = "loaded"
    /\ analyzer.pc = "idle"
    /\ \E path \in DocumentPaths, impl \in AnalyzeImageImpls :
        LET type == DocType(path) IN
        IF type = "unsupported"
        THEN analyzer' = [analyzer EXCEPT !.pc = "done", !.document_path = path,
                              !.outcome = "ValueError: Unsupported document type"]
        ELSE analyzer' = [analyzer EXCEPT !.pc = "extracting", !.document_path = path,
                              !.analyze_image = impl,
                              !.trace = <<"_extract_images_from_" \o type>>]
    /\ UNCHANGED <<reviewerVars, parser>>

\* the extraction returns the paths of n images, or raises ValueError
ExtractImages ==
    /\ analyzer.pc = "extracting"
    /\ \/ \E n \in 0..MaxImages :
            analyzer' = [analyzer EXCEPT !.pc = "analyzing", !.image_paths = n]
       \/ analyzer' = [analyzer EXCEPT !.pc = "done",
                            !.outcome = "ValueError: Failed to extract images"]
    /\ UNCHANGED <<reviewerVars, parser>>

\* the first image whose analysis raises ends the loop
AnalyzeImageStopsAtFailure ==
    /\ analyzer.pc = "analyzing"
    /\ analyzer.analyzed < analyzer.image_paths
    /\ LET i == analyzer.analyzed + 1 IN
       \/ /\ analyzer.analyze_image = "patched"
          /\ analyzer' = [analyzer EXCEPT !.analyzed = i,
                               !.trace = Append(@, "analyze_image"),
                               !.outcomes = Append(@, "ok"),
                               !.results = Append(@, i)]
       \/ analyzer' = [analyzer EXCEPT !.analyzed = analyzer.image_paths,
                            !.trace = Append(@, "analyze_image"),
                            !.outcomes = Append(@, "raised")]
    /\ UNCHANGED <<reviewerVars, parser>>

\* one iteration of "for image_path in image_paths": analyze_image returns
\* and the result is appended, or raises and the image is skipped. The
\* analyze_image of the module always raises (NameError at json.loads, json
\* is never imported); one patched in, as the tests do, can return.
AnalyzeImage ==
    /\ analyzer.pc = "analyzing"
    /\ analyzer.analyzed < analyzer.image_paths
    /\ LET i == analyzer.analyzed + 1 IN
       \/ /\ analyzer.analyze_image = "patched"
          /\ analyzer' = [analyzer EXCEPT !.analyzed = i,
                               !.trace = Append(@, "analyze_image"),
                               !.outcomes = Append(@, "ok"),
                               !.results = Append(@, i)]
       \/ analyzer' = [analyzer EXCEPT !.analyzed = i,
                            !.trace = Append(@, "analyze_image"),
                            !.outcomes = Append(@, "raised")]
    /\ UNCHANGED <<reviewerVars, parser>>

\* return results
AnalyzeReturns ==
    /\ analyzer.pc = "analyzing"
    /\ analyzer.analyzed = analyzer.image_paths
    /\ analyzer' = [analyzer EXCEPT !.pc = "done", !.outcome = "results"]
    /\ UNCHANGED <<reviewerVars, parser>>

AnalyzeCallEnds ==
    /\ analyzer.pc = "done"
    /\ analyzer' = [AnalyzerIdle EXCEPT !.module = "loaded"]
    /\ UNCHANGED <<reviewerVars, parser>>

----------------------------------------------------------------------------
(* __init__ *)

\* the package __init__ raises ReviewError without an API key; neither copy
\* looks at max_chunk_size
InitOutcome(api_key_set, budget) == IF api_key_set THEN "ready" ELSE "init_failed"

Init ==
    /\ copy \in Copies
    /\ max_chunk_size \in Budgets
    /\ \E api_key_set \in BOOLEAN : agent = InitOutcome(api_key_set, max_chunk_size)
    /\ pc = "idle"
    /\ design_doc = <<>>
    /\ chunks = <<>>
    /\ processed_chunks = <<>>
    /\ calls = <<>>
    /\ result = <<>>
    /\ error = "none"
    /\ total_tokens = 0
    /\ outstanding = <<>>
    /\ log = <<>>
    /\ review = NoReview
    /\ requests = <<>>
    /\ validation = ValidationIdle
    /\ parser = ParserIdle
    /\ analyzer = AnalyzerIdle

Next ==
    \/ ChunkDocument
    \/ ProcessLargeDocument
    \/ ProcessNotText
    \/ SummarizeRequest
    \/ SummarizeOk
    \/ SummarizeFailPropagate
    \/ SummarizeFailFallback
    \/ ProcessReturn
    \/ ReviewCatches
    \/ ReviewCall
    \/ CallEnds

Spec == Init /\ [][Next]_vars

\* an external call, once made, returns or fails
CallReturnsOrFails ==
    SummarizeOk \/ SummarizeFailPropagate \/ SummarizeFailFallback

\* the interpreter runs the loop on: it sends the next request and returns
\* after the last chunk; each request is answered
Fairness ==
    /\ WF_vars(SummarizeRequest)
    /\ WF_vars(CallReturnsOrFails)
    /\ WF_vars(ProcessReturn)

SpecLive == Init /\ [][Next]_vars /\ Fairness

\* the validation of a review, all else at rest
InitValidation ==
    /\ Init
    /\ copy = "package" /\ agent = "ready" /\ max_chunk_size = MaxBudget

NextValidation ==
    \/ ReviewParsed
    \/ ValidateReviewResult
    \/ ReviewValidated
    \/ ValidationEnds

SpecValidation == InitValidation /\ [][NextValidation]_vars

\* a DocumentParser at work, the agent at rest
InitParser ==
    /\ Init
    /\ copy = "package" /\ agent = "ready" /\ max_chunk_size = MaxBudget

NextParser ==
    \/ ParseDocument
    \/ ParseDetect
    \/ ParseDispatch
    \/ ParseEnds
    \/ ParseCallEnds

SpecParser == InitParser /\ [][NextParser]_vars

\* an ImageAnalyzer at work, the agent at rest
InitImages == InitParser

NextImages ==
    \/ ImportImageAnalyzer
    \/ AnalyzeDocumentImages
    \/ ExtractImages
    \/ AnalyzeImage
    \/ AnalyzeReturns
    \/ AnalyzeCallEnds

SpecImages == InitImages /\ [][NextImages]_vars

----------------------------------------------------------------------------
(* Properties *)

\* _process_large_document has been entered with design_doc
Processing == pc \in {"reducing", "returned", "raised"}

OverBudget == _estimate_tokens(design_doc) > max_chunk_size

\* chunks holds what _chunk_document returned for design_doc
ChunkerRan == pc = "chunked" \/ (Processing /\ OverBudget)

\* the paragraphs of the chunks, chunk after chunk
RECURSIVE ParagraphsOf(_)
ParagraphsOf(chs) ==
    IF chs = <<>> THEN <<>> ELSE Split(Head(chs)) \o ParagraphsOf(Tail(chs))

\* C1: a document whose estimate is within the budget is returned as it is,
\* at once, with no request to the summarization service and no chunking.
C1_WithinBudgetUnchanged ==
    (Processing /\ _estimate_tokens(design_doc) <= max_chunk_size)
        => /\ pc = "returned"
           /\ result = design_doc
           /\ calls = <<>>
           /\ chunks = <<>>
           /\ error = "none"

C1_Witness ==
    /\ pc = "returned"
    /\ max_chunk_size > 0
    /\ _estimate_tokens(design_doc) = max_chunk_size
    /\ result = design_doc
    /\ Len(design_doc) = 11

\* C2: the paragraphs of the chunks, in chunk order, are the paragraphs of
\* the document (its split on blank lines), and no chunk is without paragraph.
C2_ChunksKeepParagraphs ==
    ChunkerRan
        => /\ ParagraphsOf(chunks) = Split(design_doc)
           /\ \A k \in 1..Len(chunks) : Len(Split(chunks[k])) >= 1

C2_Witness ==
    /\ pc = "reducing"
    /\ max_chunk_size > 0
    /\ Len(chunks) = 2
    /\ Len(Split(chunks[1])) = 2
    /\ Len(Split(design_doc)) = 3


\* C3: every chunk's estimate (of its text, separators included) is within
\* the budget, unless the chunk is one paragraph that alone exceeds it.
C3_ChunkWithinBudget ==
    (ChunkerRan /\ max_chunk_size > 0)
        => \A k \in 1..Len(chunks) :
              \/ _estimate_tokens(chunks[k]) <= max_chunk_size
              \/ Len(Split(chunks[k])) = 1

\* number of paragraphs in the chunks before the k-th
ParagraphsBefore(chs, k) == Len(ParagraphsOf(SubSeq(chs, 1, k - 1)))

\* C4: a paragraph that alone exceeds the budget is a chunk by itself, at its
\* place in the chunk sequence, and the loop of _process_large_document sends
\* that chunk to the summarization service when it comes to it.
C4_OversizedParagraphAlone ==
    ChunkerRan
        => LET paragraphs == Split(design_doc) IN
           \A j \in 1..Len(paragraphs) :
              _estimate_tokens(paragraphs[j]) > max_chunk_size
                 => \E k \in 1..Len(chunks) :
                       /\ ParagraphsBefore(chunks, k) = j - 1
                       /\ chunks[k] = paragraphs[j]
                       /\ pc = "returned" => Len(calls) >= k
                       /\ Len(calls) >= k => calls[k].chunk = paragraphs[j]

C4_Witness ==
    /\ pc = "returned"
    /\ max_chunk_size > 0
    /\ Len(chunks) = 2
    /\ _estimate_tokens(chunks[1]) > max_chunk_size
    /\ chunks[2] = <<>>
    /\ calls[1].chunk = chunks[1]

\* C5: _chunk_document("") returns no chunk.
C5_EmptyDocumentNoChunk ==
    (pc = "chunked" /\ max_chunk_size > 0 /\ design_doc = <<>>) => chunks = <<>>

\* C6: the i-th request to the summarization service carries the i-th chunk,
\* and a call that returns has made one request for each chunk, no more.
C6_OneReductionPerChunk ==
    (Processing /\ OverBudget)
        => /\ Len(calls) <= Len(chunks)
           /\ \A i \in 1..Len(calls) : calls[i].chunk = chunks[i]
           /\ pc = "returned" => Len(calls) = Len(chunks)

C6_Witness ==
    /\ pc = "returned"
    /\ max_chunk_size > 0
    /\ Len(chunks) = 2
    /\ Len(calls) = 2
    /\ \A i \in 1..2 : calls[i].outcome = "ok"
    /\ _estimate_tokens(chunks[1]) > max_chunk_size
    /\ _estimate_tokens(chunks[2]) < max_chunk_size

NoFailure == \A i \in 1..Len(calls) : calls[i].outcome = "ok"

\* the texts the service answered, request after request
Responses == [i \in 1..Len(calls) |-> calls[i].response]

\* C7: when every reduction answered, the returned document is the answers
\* for chunk 1, ..., chunk n as they came, joined by the blank-line separator.
C7_ResultIsJoinedAnswers ==
    (pc = "returned" /\ OverBudget /\ NoFailure)
        => /\ Len(calls) = Len(chunks)
           /\ result = Join(Responses)

C7_Witness ==
    /\ pc = "returned"
    /\ max_chunk_size > 0
    /\ Len(chunks) = 2
    /\ NoFailure
    /\ calls[1].response = <<"t", NL, NL, "u", NL>>
    /\ calls[2].response = <<"s">>
    /\ result = <<"t", NL, NL, "u", NL, NL, NL, "s">>

\* C8: in the package copy a failed request is the last request of the call:
\* the call ends by raising, with nothing returned and no later chunk sent.
C8_PropagateAborts ==
    (copy = "package" /\ Processing)
        => \A k \in 1..Len(calls) :
              calls[k].outcome = "failed"
                 => /\ k = Len(calls)
                    /\ pc = "raised"
                    /\ error = "DocumentProcessingError"
                    /\ result = <<>>
                    /\ Len(processed_chunks) = k - 1

C8_Witness ==
    /\ copy = "package"
    /\ pc = "raised"
    /\ max_chunk_size > 0
    /\ Len(chunks) = 2
    /\ Len(calls) = 1
    /\ calls[1].outcome = "failed"

\* what the fallback policy puts at position k of the output
FallbackOutput ==
    [k \in 1..Len(calls) |->
        IF calls[k].outcome = "failed" THEN chunks[k] ELSE calls[k].response]

\* C9: in the toplevel copy no failure of a request leaves the call: every
\* chunk is attempted, and the returned document has, at each position, the
\* answer for that chunk, or the chunk itself where the request failed.
C9_FallbackSubstitutes ==
    (copy = "toplevel" /\ Processing)
        => /\ pc # "raised"
           /\ error = "none"
           /\ Len(processed_chunks) = Len(calls)
           /\ (pc = "returned" /\ OverBudget)
                 => /\ Len(calls) = Len(chunks)
                    /\ \A i \in 1..Len(calls) : calls[i].chunk = chunks[i]
                    /\ result = Join(FallbackOutput)

C9_Witness ==
    /\ copy = "toplevel"
    /\ pc = "returned"
    /\ max_chunk_size > 0
    /\ Len(chunks) = 2
    /\ calls[1].outcome = "failed"
    /\ calls[2].outcome = "ok"
    /\ result = chunks[1] \o Sep \o calls[2].response

\* C10: __init__ does not give a ready agent for a budget of 0 or less.
C10_NonPositiveBudgetRejected ==
    max_chunk_size <= 0 => agent = "init_failed"


\* C11: in the package copy a review_design whose document processing failed
\* (estimation, chunking or a reduction) returns a result of status "error"
\* with a message, never a "success" and never an exception.
C11_CoreFailureIsErrorResult ==
    (copy = "package" /\ pc = "reviewed" /\ error # "none")
        => /\ review.status = "error"
           /\ review.message # "none"

C11_Witness ==
    /\ copy = "package"
    /\ pc = "reviewed"
    /\ max_chunk_size > 0
    /\ error = "DocumentProcessingError"
    /\ review.status = "error"
    /\ \E i \in 1..Len(log) : log[i] = "Error summarizing chunk"


\* the lines of the log that say a chunk could not be summarized
Warnings == {i \in 1..Len(log) : log[i] = "Warning: Could not summarize chunk"}

\* the requests of this call that failed
FailedCalls == {i \in 1..Len(calls) : calls[i].outcome = "failed"}

\* C12: in the toplevel copy every substitution of an unreduced chunk writes
\* one warning line, and nothing else writes one: the output of a call with a
\* substitution differs from the output of a call where every reduction
\* answered.
C12_SubstitutionIsLogged ==
    (copy = "toplevel" /\ Processing)
        => /\ Cardinality(Warnings) = Cardinality(FailedCalls)
           /\ (pc = "returned" /\ OverBudget /\ result # Join(Responses))
                 => Warnings # {}

C12_Witness ==
    /\ copy = "toplevel"
    /\ pc = "returned"
    /\ max_chunk_size > 0
    /\ Len(chunks) = 2
    /\ calls[1].outcome = "ok"
    /\ calls[2].outcome = "failed"
    /\ result = calls[1].response \o Sep \o chunks[2]
    /\ Cardinality(Warnings) = 1


\* C13: the document handed to the review request is within the budget when
\* every reduction answered (each answer of Summaries is itself within it).
C13_ProcessedWithinBudget ==
    (pc = "returned" /\ max_chunk_size > 0 /\ NoFailure
        /\ \A s \in Summaries : _estimate_tokens(s) <= max_chunk_size)
        => _estimate_tokens(result) <= max_chunk_size


\* C14: the estimate _process_large_document takes of its document is the
\* one integer n >= 0 with 4n <= length < 4n + 4, and taking it leaves the
\* agent's fields as they were.
C14_EstimateIsFloorOfQuarter ==
    [][(pc = "idle" /\ pc' \in {"returned", "reducing"})
          => /\ total_tokens' >= 0
             /\ 4 * total_tokens' <= Len(design_doc')
             /\ Len(design_doc') < 4 * total_tokens' + 4
             /\ UNCHANGED agentVars]_vars

C14_Witness ==
    /\ pc = "reducing"
    /\ Len(design_doc) = 11
    /\ total_tokens = 2
    /\ max_chunk_size = 1

\* the state of an agent that is not in a call
CallStateClear ==
    /\ design_doc = <<>> /\ chunks = <<>> /\ processed_chunks = <<>>
    /\ calls = <<>> /\ result = <<>> /\ error = "none" /\ total_tokens = 0
    /\ outstanding = <<>> /\ log = <<>> /\ review = NoReview

\* C15: no step changes max_chunk_size or another field of the agent; a call
\* starts from nothing but its document and the budget, whatever the calls
\* before it did, and leaves nothing behind.
C15_BudgetFixedCallsStateless ==
    [][/\ UNCHANGED agentVars
       /\ (pc = "idle" /\ pc' = "reducing")
             => /\ chunks' = _chunk_document(design_doc', max_chunk_size)
                /\ calls' = <<>>
                /\ processed_chunks' = <<>>
                /\ outstanding' = <<>>
       /\ (pc = "reducing" /\ outstanding = <<>> /\ outstanding' # <<>>)
             => outstanding' = <<chunks[Len(calls) + 1]>>
       /\ pc' = "idle" => CallStateClear']_vars

C15_Witness ==
    /\ pc = "reducing"
    /\ max_chunk_size = 1
    /\ Len(chunks) = 2
    /\ Len(calls) = 1
    /\ calls[1].outcome = "failed"
    /\ outstanding = <<chunks[2]>>


\* the parser the type of the file's bytes calls for, none for another type
ParserFor(mime_type) ==
    CASE mime_type = DocxMime -> "parse_docx"
      [] mime_type = PdfMime -> "parse_pdf"
      [] mime_type = MarkdownMime -> "parse_markdown"
      [] mime_type.type = "text" /\ mime_type # MarkdownMime -> "parse_text"
      [] OTHER -> "none"

SupportedExtensions == {".docx", ".pdf", ".md", ".txt"}

\* C16: parse_document calls the one parser of the detected type and no
\* other, and ends with ValueError for a file of another type, a file with an
\* unsupported extension among them.
C16_DispatchOnType ==
    (parser.pc \in {"parsing", "done"} /\ parser.file.exists)
        => /\ ParserFor(parser.mime_type) # "none"
                => parser.trace = <<"detect_file_type", ParserFor(parser.mime_type)>>
           /\ ParserFor(parser.mime_type) = "none"
                => /\ parser.trace = <<"detect_file_type">>
                   /\ parser.outcome = "ValueError"
           /\ parser.file.ext \notin SupportedExtensions
                => /\ parser.pc = "done"
                   /\ parser.outcome = "ValueError"

\* the part of C16 that holds: the parser is chosen by the type of the bytes
DispatchOnTypeOfBytes ==
    (parser.pc \in {"parsing", "done"} /\ parser.file.exists)
        => /\ ParserFor(parser.mime_type) # "none"
                => parser.trace = <<"detect_file_type", ParserFor(parser.mime_type)>>
           /\ ParserFor(parser.mime_type) = "none"
                => /\ parser.trace = <<"detect_file_type">>
                   /\ parser.outcome = "ValueError"

\* C17: for a path with no file parse_document ends with FileNotFoundError,
\* having detected no type and called no parser.
C17_MissingFileFirst ==
    (parser.pc # "idle" /\ ~parser.file.exists)
        => /\ parser.pc = "done"
           /\ parser.outcome = "FileNotFoundError"
           /\ parser.trace = <<>>

C17_Witness ==
    /\ parser.pc = "done"
    /\ ~parser.file.exists
    /\ parser.file.ext = ".txt"
    /\ parser.outcome = "FileNotFoundError"

\* the path ends in the suffix, letter case apart
EndsWithIgnoringCase(path, suffix) ==
    /\ Len(path) >= Len(suffix)
    /\ \A i \in 1..Len(suffix) :
          LowerChar(path[Len(path) - Len(suffix) + i]) = suffix[i]

SupportedPath(path) ==
    EndsWithIgnoringCase(path, DotPdf) \/ EndsWithIgnoringCase(path, DotDocx)

\* C18: for a path that ends in neither .pdf nor .docx, letter case apart,
\* analyze_document_images ends with ValueError "Unsupported document type",
\* having extracted and analysed nothing.
C18_UnsupportedDocumentType ==
    (analyzer.pc # "idle" /\ ~SupportedPath(analyzer.document_path))
        => /\ analyzer.pc = "done"
           /\ analyzer.outcome = "ValueError: Unsupported document type"
           /\ analyzer.trace = <<>>
           /\ analyzer.results = <<>>

C18_Witness ==
    /\ analyzer.pc = "done"
    /\ analyzer.document_path = <<"a", ".", "p", "d", "f", ".", "t", "x", "t">>
    /\ analyzer.outcome = "ValueError: Unsupported document type"


\* The accumulator algorithm of the specification: the finished groups of
\* paragraphs, the accumulator and its size after the first k paragraphs.
RECURSIVE AccumulatorAfter(_, _, _)
AccumulatorAfter(paras, k, budget) ==
    IF k = 0 THEN [finished |-> <<>>, acc |-> <<>>, size |-> 0]
    ELSE LET prev == AccumulatorAfter(paras, k - 1, budget)
             estimate == Len(paras[k]) \div 4
             exceeds == prev.size + estimate > budget
         IN  IF exceeds /\ prev.acc # <<>>
             THEN [finished |-> Append(prev.finished, prev.acc),
                   acc |-> <<paras[k]>>,
                   size |-> estimate]
             ELSE [finished |-> prev.finished,
                   acc |-> Append(prev.acc, paras[k]),
                   size |-> prev.size + estimate]

AccumulatorChunks(text, budget) ==
    LET paras == Split(text)
        end == AccumulatorAfter(paras, Len(paras), budget)
        groups == IF end.acc # <<>> THEN Append(end.finished, end.acc)
                  ELSE end.finished
    IN  [i \in 1..Len(groups) |-> Join(groups[i])]

\* C19: the chunks _chunk_document returns are those of the accumulator
\* algorithm: a paragraph closes the accumulator if and only if adding its
\* estimate would exceed the budget and the accumulator is non-empty,
\* otherwise it is appended; a non-empty accumulator is the final chunk.
C19_ChunkerIsAccumulator ==
    ChunkerRan => chunks = AccumulatorChunks(design_doc, max_chunk_size)

\* two paragraphs whose estimates add up to exactly the budget share a chunk
C19_Witness ==
    /\ pc = "chunked"
    /\ max_chunk_size = 2
    /\ Len(Split(design_doc)) = 2
    /\ \A i \in 1..2 : _estimate_tokens(Split(design_doc)[i]) = 1
    /\ chunks = <<design_doc>>

\* C20: at most one request to the summarization service is outstanding at
\* any time, and it is the request for the chunk after those already answered
\* (or, in the fallback copy, failed and substituted).
C20_CallsNeverOverlap ==
    /\ Len(outstanding) <= 1
    /\ outstanding # <<>>
          => /\ pc = "reducing"
             /\ Len(calls) < Len(chunks)
             /\ outstanding[1] = chunks[Len(calls) + 1]
             /\ Len(processed_chunks) = Len(calls)
             /\ \A i \in 1..Len(calls) : calls[i].chunk = chunks[i]

\* the second request is out after the first was answered
C20_Witness ==
    /\ pc = "reducing"
    /\ Len(chunks) = 2
    /\ Len(calls) = 1
    /\ calls[1].outcome = "ok"
    /\ Len(processed_chunks) = 1
    /\ outstanding = <<chunks[2]>>


\* a review_design of the package copy ends in success
ReviewSucceeds ==
    copy = "package" /\ pc = "returned" /\ pc' = "reviewed"
        /\ review'.status = "success"

\* C21: after a successful review_design of the package copy chunks_processed
\* is 0 when the document was within the budget, and otherwise the number of
\* chunks the chunker produced, which is the number of reduction calls made.
C21_ChunksProcessedCountsChunks ==
    [][(ReviewSucceeds /\ max_chunk_size > 0)
          => /\ ~OverBudget => review'.chunks_processed = 0
             /\ OverBudget
                   => /\ review'.chunks_processed = Len(chunks)
                      /\ review'.chunks_processed = Len(calls)]_vars

\* what does hold: chunks_processed is 0 for a document within the budget
ChunksProcessedZeroWithinBudget ==
    [][(ReviewSucceeds /\ ~OverBudget) => review'.chunks_processed = 0]_vars


\* C22: a _process_large_document that chunked its document ends, returning
\* after the whole chunk sequence was reduced or aborting on a failure; while
\* it runs it makes at most one call per chunk and keeps its chunks.
C22_ProcessingFinishes ==
    /\ (pc = "reducing") ~> (pc \in {"returned", "raised"})
    /\ [](pc = "returned" /\ OverBudget => Len(calls) = Len(chunks))
    /\ [](Processing => Len(calls) <= Len(chunks))
    /\ [][pc = "reducing" /\ pc' \in {"reducing", "returned", "raised"}
             => /\ chunks' = chunks
                /\ design_doc' = design_doc
                /\ Len(calls') \in {Len(calls), Len(calls) + 1}]_vars

\* the second of two calls failed and the processing aborted
C22_Witness ==
    /\ pc = "raised"
    /\ Len(chunks) = 2
    /\ Len(calls) = 2
    /\ calls[1].outcome = "ok"
    /\ calls[2].outcome = "failed"


\* C23: every invocation of _summarize_chunk has made exactly one request;
\* the user message of the i-th request is the fixed instruction, a blank
\* line and the i-th chunk as it is; every request has temperature 0.3 and
\* max_tokens 2000.
C23_OneFixedRequestPerInvocation ==
    Processing
        => /\ Len(requests) = Len(calls) + Len(outstanding)
           /\ \A i \in 1..Len(requests) :
                /\ i <= Len(chunks)
                /\ requests[i].user[1] = PreservationInstruction(copy)[1]
                /\ SubSeq(requests[i].user, 2, Len(requests[i].user))
                      = <<"\n", "\n">> \o chunks[i]
                /\ requests[i].temperature = 3
                /\ requests[i].max_tokens = 2000

\* a failed request was the only one made for its chunk
C23_Witness ==
    /\ copy = "package"
    /\ pc = "raised"
    /\ Len(chunks) = 2
    /\ Len(requests) = 2
    /\ calls[2].outcome = "failed"
    /\ Len(requests[2].user) = Len(chunks[2]) + 3


\* the images whose analysis returned
AnalyzedImages == {i \in 1..Len(analyzer.outcomes) : analyzer.outcomes[i] = "ok"}

\* C24: analyze_document_images analyses every extracted image and returns
\* the results of those whose analysis returned, in extraction order; an image
\* whose analysis raises is left out and ends nothing.
C24_FailedImagesSkipped ==
    (analyzer.pc = "done" /\ analyzer.trace # <<>>
        /\ analyzer.outcome # "ValueError: Failed to extract images")
        => /\ analyzer.outcome = "results"
           /\ Len(analyzer.outcomes) = analyzer.image_paths
           /\ {analyzer.results[j] : j \in 1..Len(analyzer.results)} = AnalyzedImages
           /\ \A j, k \in 1..Len(analyzer.results) :
                 j < k => analyzer.results[j] < analyzer.results[k]

\* the first image raised and the second is in the results
C24_Witness ==
    /\ analyzer.pc = "done"
    /\ analyzer.image_paths = 2
    /\ analyzer.outcomes = <<"raised", "ok">>
    /\ analyzer.results = <<2>>


\* the sum of the estimates of the paragraphs
RECURSIVE SumOfEstimates(_)
SumOfEstimates(paras) ==
    IF paras = <<>> THEN 0
    ELSE (Len(Head(paras)) \div 4) + SumOfEstimates(Tail(paras))

\* the loop of _chunk_document after k paragraphs of the document
LoopAfter(k) ==
    ChunkLoop(ChunkInit, SubSeq(Split(design_doc), 1, k), max_chunk_size)

\* C25: at every step of the loop of _chunk_document current_size is the sum
\* of the estimates of the paragraphs in current_chunk, and every chunk of
\* two or more paragraphs has a sum of paragraph estimates within the budget.
\* Stated on the direct calls of _chunk_document, which take every document.
C25_AccumulatorInvariant ==
    pc = "chunked"
        => /\ \A k \in 0..Len(Split(design_doc)) :
                LET st == LoopAfter(k) IN
                /\ st.current_size = SumOfEstimates(st.current_chunk)
                /\ Len(st.current_chunk) >= 2 => st.current_size <= max_chunk_size
                /\ \A c \in 1..Len(st.chunks) : st.chunks[c] = chunks[c]
           /\ \A c \in 1..Len(chunks) :
                Len(Split(chunks[c])) >= 2
                    => SumOfEstimates(Split(chunks[c])) <= max_chunk_size

\* a chunk of two paragraphs whose estimates sum to the budget while the
\* estimate of its text is above it
C25_Witness ==
    /\ pc = "chunked"
    /\ max_chunk_size = 1
    /\ chunks = <<design_doc>>
    /\ Len(Split(design_doc)) = 2
    /\ SumOfEstimates(Split(design_doc)) = 1
    /\ Len(design_doc) \div 4 = 2


\* the texts with a blank line between each and the next
RECURSIVE BlankLineJoined(_)
BlankLineJoined(texts) ==
    IF Len(texts) = 0 THEN <<>>
    ELSE IF Len(texts) = 1 THEN texts[1]
    ELSE BlankLineJoined(SubSeq(texts, 1, Len(texts) - 1))
            \o <<"\n", "\n">> \o texts[Len(texts)]

\* C26: the chunks of a document, joined with blank lines, are the document,
\* character for character; so in the top-level copy a processing in which
\* every reduction failed returns the document it was given.
C26_ChunksRejoinToDocument ==
    /\ ChunkerRan => BlankLineJoined(chunks) = design_doc
    /\ (copy = "toplevel" /\ pc = "returned" /\ OverBudget
            /\ \A i \in 1..Len(calls) : calls[i].outcome = "failed")
          => result = design_doc

\* a document with three newlines in a row came back whole after both of its
\* reductions failed
C26_Witness ==
    /\ copy = "toplevel"
    /\ pc = "returned"
    /\ max_chunk_size > 0
    /\ Len(chunks) = 2
    /\ \A i \in 1..2 : calls[i].outcome = "failed"
    /\ \E i \in 1..(Len(design_doc) - 2) :
          \A j \in i..(i + 2) : design_doc[j] = "\n"
    /\ result = design_doc


\* the call logged a failure of the summarization API
ApiFailureLogged ==
    \E i \in 1..Len(log) : log[i] = "OpenAI API error during summarization"

\* C27: in the package copy whatever fails inside _process_large_document
\* leaves it as a DocumentProcessingError, a failure of the summarization API
\* included, and review_design reports it as "Document processing error",
\* never as "OpenAI API error".
C27_ProcessingFailureIsDocumentError ==
    copy = "package"
        => /\ pc \in {"raised", "estimate_failed"}
                => error = "DocumentProcessingError"
           /\ (pc = "reviewed" /\ error # "none")
                => /\ review.status = "error"
                   /\ review.message = "Document processing error"
           /\ ApiFailureLogged
                => /\ error = "DocumentProcessingError"
                   /\ pc = "reviewed" => review.message # "OpenAI API error"

\* a failure of the summarization API reported as a document processing error
C27_Witness ==
    /\ copy = "package"
    /\ pc = "reviewed"
    /\ ApiFailureLogged
    /\ review = [status |-> "error", message |-> "Document processing error"]


\* a review the criteria make mandatory came without recommendations
MandatoryReviewMissing ==
    \/ /\ validation.criteria.require_security_review
       /\ Len(validation.result.security_recommendations) = 0
    \/ /\ validation.criteria.require_resiliency_review
       /\ Len(validation.result.resiliency_recommendations) = 0

\* a section scored under the threshold
LowScore ==
    \E k \in 1..Len(Sections) :
        validation.result.score[k] < validation.criteria.min_score_threshold

\* C28: the validated review becomes an error result exactly when a mandatory
\* review has no recommendations; a score under the threshold or an empty
\* list of critical findings is logged and leaves a success a success.
C28_ErrorIffMandatoryReviewMissing ==
    validation.pc = "done"
        => /\ validation.review.status = "error" <=> MandatoryReviewMissing
           /\ validation.review.status = "success" <=> ~MandatoryReviewMissing
           /\ MandatoryReviewMissing
                => validation.review.message = "Review validation error"
           /\ (LowScore /\ ~MandatoryReviewMissing)
                => /\ validation.review.status = "success"
                   /\ validation.log # <<>>
           /\ (validation.result.critical_findings = <<>> /\ ~MandatoryReviewMissing)
                => /\ validation.review.status = "success"
                   /\ validation.log # <<>>

\* a review with low scores and no critical findings is a success
C28_Witness ==
    /\ validation.pc = "done"
    /\ validation.criteria.min_score_threshold = 7
    /\ \A k \in 1..Len(Sections) : validation.result.score[k] = 6
    /\ validation.result.critical_findings = <<>>
    /\ validation.criteria.require_security_review
    /\ validation.review.status = "success"
    /\ Len(validation.log) = 7


\* C29: a _process_large_document that has ended made no reduction call if
\* and only if the estimate of its document is within the budget; a document
\* over the budget has at least one chunk and at least one call.
C29_NoCallIffWithinBudget ==
    pc \in {"returned", "raised"}
        => /\ Len(requests) = 0 <=> Len(design_doc) \div 4 <= max_chunk_size
           /\ Len(calls) = 0 <=> Len(design_doc) \div 4 <= max_chunk_size
           /\ Len(design_doc) \div 4 > max_chunk_size => Len(chunks) >= 1

\* a document one token over the budget: one chunk, one call
C29_Witness ==
    /\ pc = "returned"
    /\ max_chunk_size = 2
    /\ Len(design_doc) = 12
    /\ Len(chunks) = 1
    /\ Len(requests) = 1
    /\ Len(calls) = 1

====
